---- MODULE Spec2Model ----
(***************************************************************************)
(* Model of innovationsperMvers2.py: a single-pass batch script that       *)
(* reads an OECD CSV export, joins it to a population table, computes      *)
(* patents per million, writes the normalized CSV, re-reads it, averages   *)
(* duplicates per (COUNTRY, TIME_PERIOD), pivots to countries x years,     *)
(* orders the countries by SORT_MODE, builds one series per year and       *)
(* writes the HTML report.                                                 *)
(*                                                                         *)
(* Floating-point numbers are modelled by exact rationals [n, d] in lowest *)
(* terms; d = 0 is NaN.  Rounding error of float arithmetic is therefore   *)
(* outside the model; rounding to two decimals (line 95) is inside it.     *)
(* Strings are compared through CodeRank because TLA+ has no order on      *)
(* strings.                                                                *)
(***************************************************************************)
EXTENDS Integers, Sequences, FiniteSets, TLC

\* Largest number of data rows of the input file.
MaxRows == 2

----------------------------------------------------------------------------
(* Numbers *)

RECURSIVE GCD(_, _)
GCD(a, b) == IF b = 0 THEN a ELSE GCD(b, a % b)

Abs(x) == IF x < 0 THEN -x ELSE x

NaN == [n |-> 0, d |-> 0]

IsNaN(v) == v.d = 0

\* The rational n/d (d > 0) in lowest terms.
Rat(n, d) ==
    LET g == GCD(Abs(n), d)
    IN  [n |-> n \div g, d |-> d \div g]

Num(k) == [n |-> k, d |-> 1]

Less(a, b) == a.n * b.d < b.n * a.d

Add(a, b) == Rat(a.n * b.d + b.n * a.d, a.d * b.d)

RECURSIVE SumSeq(_)
SumSeq(s) == IF s = <<>> THEN Num(0) ELSE Add(Head(s), SumSeq(Tail(s)))

\* Variant of Divide: the quotient cut to two decimals.
DivideRounded(a, b) ==
    IF IsNaN(a) \/ IsNaN(b) \/ b.n <= 0
    THEN NaN
    ELSE LET q == (100 * a.n * b.d) \div (a.d * b.n)
         IN  Rat(q, 100)

\* a / b of two float columns (line 37); NaN propagates.  b is positive
\* wherever the script divides (line 36 has filtered the rest).
Divide(a, b) ==
    IF IsNaN(a) \/ IsNaN(b) \/ b.n <= 0
    THEN NaN
    ELSE Rat(a.n * b.d, a.d * b.n)

\* round(float(v), 2) for v >= 0 (line 95): to the nearest hundredth, an
\* exact tie to the even hundredth.
Round2(v) ==
    LET q == (100 * v.n) \div v.d
        r == (100 * v.n) % v.d
        h == IF 2 * r > v.d THEN q + 1
             ELSE IF 2 * r = v.d THEN q + (q % 2)
             ELSE q
    IN  Rat(h, 100)

----------------------------------------------------------------------------
(* Text of the CSV cells *)

\* The year texts int() and pd.to_numeric accept, with their values.
YearOf == [t \in {"2019", "2020", "2021"} |->
             CASE t = "2019" -> 2019
               [] t = "2020" -> 2020
               [] t = "2021" -> 2021]

\* str(y) (line 97).
Str(y) == CHOOSE t \in DOMAIN YearOf : YearOf[t] = y

\* pd.to_numeric(..., errors="coerce") (line 50): NaN where parsing fails.
ToNumeric(t) ==
    IF t \in DOMAIN YearOf THEN Num(YearOf[t]) ELSE NaN

\* Lexicographic order of the country codes.
CodeRank == [c \in {"A", "B", "C", "Z"} |->
               CASE c = "A" -> 1
                 [] c = "B" -> 2
                 [] c = "C" -> 3
                 [] c = "Z" -> 4]

CountryName == [c \in DOMAIN CodeRank |->
                  CASE c = "A" -> "Aland"
                    [] c = "B" -> "Borduria"
                    [] c = "C" -> "Cascara"
                    [] c = "Z" -> "Zembla"]

----------------------------------------------------------------------------
(* The population table (lines 25-31).  The script's table has eleven      *)
(* countries, all positive; the model keeps two positive entries and one   *)
(* entry of 0, the value the guard of line 36 is written for, and leaves   *)
(* country Z without an entry.                                             *)

population_millions == [c \in {"A", "B", "C"} |->
                          CASE c = "A" -> Num(1)
                            [] c = "B" -> Num(3)
                            [] c = "C" -> Num(0)]

----------------------------------------------------------------------------
(* Input files *)

Header == <<"COUNTRY", "Country", "TIME_PERIOD", "OBS_VALUE">>

Range(s) == {s[i] : i \in DOMAIN s}

Without(s, c) == SelectSeq(s, LAMBDA x : x # c)

\* The full header and the headers lacking one required column.
Headers == {Header, Without(Header, "COUNTRY"), Without(Header, "OBS_VALUE"),
            Without(Header, "TIME_PERIOD")}

ObsRow(c, t, v) ==
    [COUNTRY |-> c, Country |-> CountryName[c], TIME_PERIOD |-> t, OBS_VALUE |-> v]

\* Rows of the two countries with a positive population, for two years and
\* three values (equal ratios arise: 1/1 = 3/3); and one row for each way a
\* row is dropped: a missing value, a year that is no number, a population
\* of 0, a country without population entry.
DataRows ==
    {ObsRow(c, t, v) : c \in {"A", "B"}, t \in {"2020", "2021"},
                       v \in {Num(0), Num(1), Num(3)}}
    \cup {ObsRow("A", "2020", NaN), ObsRow("A", "n/a", Num(1)),
          ObsRow("C", "2020", Num(1)), ObsRow("Z", "2020", Num(1))}

Restrict(r, cols) == [k \in cols |-> r[k]]

SeqsUpTo(S, n) == UNION {[1..k -> S] : k \in 0..n}

InputFiles ==
    {[exists |-> FALSE, cols |-> <<>>, rows |-> <<>>]}
    \cup UNION {{[exists |-> TRUE, cols |-> h, rows |-> rs] :
                   rs \in SeqsUpTo({Restrict(r, Range(h)) : r \in DataRows}, MaxRows)} :
                h \in Headers}

----------------------------------------------------------------------------
(* Normalizer (lines 33-37) *)

Extend(r, k, v) == [x \in DOMAIN r \cup {k} |-> IF x = k THEN v ELSE r[x]]

\* The population of a code, NaN where the left join finds no entry.
Lookup(c) ==
    IF c \in DOMAIN population_millions THEN population_millions[c] ELSE NaN

\* df.merge(pop_df, on="COUNTRY", how="left") (line 34).
LeftMerge(rows) ==
    [i \in DOMAIN rows |->
        Extend(rows[i], "Population_millions", Lookup(rows[i]["COUNTRY"]))]

\* merged.dropna(subset=["Population_millions"]) (line 35).
HasPopulation(r) == ~IsNaN(r["Population_millions"])

DropNaPopulation(rows) == SelectSeq(rows, HasPopulation)

\* Variant of PositivePopulation: >= in place of >.
NonNegativePopulation(r) == r["Population_millions"].n >= 0

\* merged[merged["Population_millions"] > 0] (line 36).
PositivePopulation(r) == r["Population_millions"].n > 0

\* merged["Patents_per_million"] = OBS_VALUE / Population_millions (line 37).
WithRatio(rows) ==
    [i \in DOMAIN rows |->
        Extend(rows[i], "Patents_per_million",
               Divide(rows[i]["OBS_VALUE"], rows[i]["Population_millions"]))]

\* Variant of MergeColumns: the year column is looked up as well.
MergeColumnsWithYear == {"COUNTRY", "OBS_VALUE", "TIME_PERIOD"}

\* The columns lines 34 and 37 look up; a KeyError when one is absent.
MergeColumns == {"COUNTRY", "OBS_VALUE"}

Normalized(table) ==
    [cols |-> table.cols \o <<"Population_millions", "Patents_per_million">>,
     rows |-> WithRatio(SelectSeq(DropNaPopulation(LeftMerge(table.rows)),
                                  PositivePopulation))]

----------------------------------------------------------------------------
(* The normalized CSV (lines 40-47) *)

cols_out == <<"COUNTRY", "Country", "TIME_PERIOD",
              "OBS_VALUE", "Population_millions", "Patents_per_million">>

NumericColumns == {"OBS_VALUE", "Population_millions", "Patents_per_million"}

\* A float is written with repr and NaN as an empty field.
WriteCell(k, v) ==
    IF k \in NumericColumns
    THEN IF IsNaN(v) THEN [empty |-> TRUE, digits |-> Num(0)]
                     ELSE [empty |-> FALSE, digits |-> v]
    ELSE v

\* An empty field is read as NaN, a number as the float it was written from.
ReadCell(k, f) ==
    IF k \in NumericColumns
    THEN IF f.empty THEN NaN ELSE f.digits
    ELSE f

\* merged.to_csv(output_file, index=False, columns=[c for c in cols_out
\*               if c in merged.columns]) (lines 42-43).
ToCsv(table) ==
    LET InTable(c) == c \in Range(table.cols)
        cols == SelectSeq(cols_out, InTable)
    IN  [written |-> TRUE, cols |-> cols,
         rows |-> [i \in DOMAIN table.rows |->
                     [k \in Range(cols) |-> WriteCell(k, table.rows[i][k])]]]

\* pd.read_csv(output_file) (line 47).
ReadCsv(file) ==
    [cols |-> file.cols,
     rows |-> [i \in DOMAIN file.rows |->
                 [k \in Range(file.cols) |-> ReadCell(k, file.rows[i][k])]]]

NoFile == [written |-> FALSE, cols |-> <<>>, rows |-> <<>>]

NoTable == [cols |-> <<>>, rows |-> <<>>]

----------------------------------------------------------------------------
(* Aggregator / Pivoter (lines 49-64) *)

RECURSIVE SortInts(_)
SortInts(S) ==
    IF S = {} THEN <<>>
    ELSE LET m == CHOOSE x \in S : \A y \in S : x <= y
         IN  <<m>> \o SortInts(S \ {m})

SortCodes(S) ==
    LET r == SortInts({CodeRank[c] : c \in S})
    IN  [i \in DOMAIN r |-> CHOOSE c \in S : CodeRank[c] = r[i]]

\* The columns lines 50-51 look up; a KeyError when one is absent.
AggregateColumns == {"TIME_PERIOD", "Patents_per_million"}

\* astype(int) (line 52).
AsInt(v) == v.n \div v.d

IsRetained(r) == ~IsNaN(r["TIME_PERIOD"]) /\ ~IsNaN(r["Patents_per_million"])

\* Lines 50-52: coerce the year, drop the rows without year or ratio.
Retained(rows) ==
    LET coerced == [i \in DOMAIN rows |->
                      [rows[i] EXCEPT !["TIME_PERIOD"] = ToNumeric(@)]]
        kept == SelectSeq(coerced, IsRetained)
    IN  [i \in DOMAIN kept |-> [kept[i] EXCEPT !["TIME_PERIOD"] = AsInt(@)]]

KeyOf(r) == <<r["COUNTRY"], r["TIME_PERIOD"]>>

\* The group keys in the order groupby yields them: by code, then by year.
SortKeys(K) ==
    LET Ord(k) == CodeRank[k[1]] * 10000 + k[2]
        r == SortInts({Ord(k) : k \in K})
    IN  [i \in DOMAIN r |-> CHOOSE k \in K : Ord(k) = r[i]]

\* The Patents_per_million of the rows of one group.
GroupValues(rows, key) ==
    LET InGroup(r) == KeyOf(r) = key
        g == SelectSeq(rows, InGroup)
    IN  [i \in DOMAIN g |-> g[i]["Patents_per_million"]]

\* Variant of Mean: the count is one too many.
MeanCountOffByOne(vals) ==
    LET s == SumSeq(vals)
    IN  Rat(s.n, s.d * (Len(vals) + 1))

\* Variant of Mean: the sum, not divided.
MeanAsSum(vals) == SumSeq(vals)

\* .mean() of a non-empty group (line 57).
Mean(vals) ==
    LET s == SumSeq(vals)
    IN  Rat(s.n, s.d * Len(vals))

\* groupby(["COUNTRY", "TIME_PERIOD"], as_index=False)[...].mean() (lines 55-57).
GroupMean(rows) ==
    LET ks == SortKeys({KeyOf(rows[i]) : i \in DOMAIN rows})
    IN  [i \in DOMAIN ks |->
           [COUNTRY |-> ks[i][1], TIME_PERIOD |-> ks[i][2],
            Patents_per_million |-> Mean(GroupValues(rows, ks[i]))]]

\* df_ratio.pivot(index="COUNTRY", columns="TIME_PERIOD", values=...)
\* .sort_index() (lines 60-61): a cell without a row is NaN.
Pivot(g) ==
    LET index == SortCodes({g[i]["COUNTRY"] : i \in DOMAIN g})
        columns == SortInts({g[i]["TIME_PERIOD"] : i \in DOMAIN g})
        At(p) == {i \in DOMAIN g : KeyOf(g[i]) = p}
    IN  [index |-> index, columns |-> columns,
         cell |-> [p \in Range(index) \X Range(columns) |->
                     IF At(p) = {} THEN NaN
                     ELSE g[CHOOSE i \in At(p) : TRUE]["Patents_per_million"]]]

NoPivot == [index |-> <<>>, columns |-> <<>>, cell |-> <<>>]

\* sorted(pivot.columns.tolist()) (line 64).
YearList(p) == SortInts(Range(p.columns))

----------------------------------------------------------------------------
(* Category Sorter (lines 66-90) *)

NotNaN(v) == ~IsNaN(v)

\* One row of the pivot, in column order.
RowValues(p, c) == [j \in DOMAIN p.columns |-> p.cell[<<c, p.columns[j]>>]]

\* Variant of SortValuesDesc: the entries without value are left out.
SortValuesDescDroppingNaN(index, key) ==
    LET Present(c) == ~IsNaN(key[c])
        present == SelectSeq(index, Present)
        n == Len(present)
    IN  {s \in [1..n -> Range(present)] :
            /\ \A i, j \in 1..n : i # j => s[i] # s[j]
            /\ \A i \in 1..(n - 1) : ~Less(key[s[i]], key[s[i + 1]])}

\* Series.sort_values(ascending=False): the values from greatest to least,
\* NaN last in index order.  The default kind is quicksort, which pandas
\* documents as not stable: equal values come out in any order.
SortValuesDesc(index, key) ==
    LET Present(c) == ~IsNaN(key[c])
        Missing(c) == IsNaN(key[c])
        present == SelectSeq(index, Present)
        n == Len(present)
    IN  {s \o SelectSeq(index, Missing) :
            s \in {t \in [1..n -> Range(present)] :
                     /\ \A i, j \in 1..n : i # j => t[i] # t[j]
                     /\ \A i \in 1..(n - 1) : ~Less(key[t[i]], key[t[i + 1]])}}

\* pivot.sum(axis=1, skipna=True) (line 73).
Total(p) == [c \in Range(p.index) |-> SumSeq(SelectSeq(RowValues(p, c), NotNaN))]

\* Variant of MaxYear: the least year.
MinYear(ys) == IF ys = <<>> THEN {} ELSE {ys[1]}

\* max(years) if years else None (lines 80, 82); None is the empty set.
MaxYear(ys) == IF ys = <<>> THEN {} ELSE {ys[Len(ys)]}

\* The year the policy "year:<tail>" sorts on (lines 77-82).
SortYearOf(tail, p, ys) ==
    LET y == IF tail \in DOMAIN YearOf THEN {YearOf[tail]} ELSE MaxYear(ys)
    IN  IF y = {} \/ ~(y \subseteq Range(p.columns)) THEN MaxYear(ys) ELSE y

\* pivot[y] (line 83).
Column(p, y) == [c \in Range(p.index) |-> p.cell[<<c, y>>]]

\* Variant of LatestVal: the value in the last year of the data.
LatestValAtLastYear(p, c) ==
    LET row == RowValues(p, c)
    IN  IF row = <<>> THEN NaN ELSE row[Len(row)]

\* row.dropna().iloc[-1], NaN for a row without values (lines 85-89).
LatestVal(p, c) ==
    LET vals == SelectSeq(RowValues(p, c), NotNaN)
    IN  IF vals = <<>> THEN NaN ELSE vals[Len(vals)]

latest_vals(p) == [c \in Range(p.index) |-> LatestVal(p, c)]

Mode(head, tail) == [head |-> head, tail |-> tail]

\* The values of SORT_MODE: "total", "latest" and "year:" followed by a
\* year of the data, a year that is never in the data, or no number.
SortModes == {Mode("total", ""), Mode("latest", "")}
             \cup {Mode("year", t) : t \in {"2019", "2021", "abc"}}

----------------------------------------------------------------------------
(* Series Builder (lines 92-97) *)

JsonNull == [null |-> TRUE, num |-> Num(0)]

JsonNum(v) == [null |-> FALSE, num |-> v]

\* Variant of series_for_year: 0 where the pivot has no value.
SeriesZeroFilled(p, cats, y) ==
    [i \in DOMAIN cats |->
        IF y \in Range(p.columns) /\ ~IsNaN(p.cell[<<cats[i], y>>])
        THEN JsonNum(Round2(p.cell[<<cats[i], y>>]))
        ELSE JsonNum(Num(0))]

\* series_for_year(y): pivot.reindex(categories)[y], None for NaN, the
\* other values rounded to two decimals (lines 93-95).
series_for_year(p, cats, y) ==
    [i \in DOMAIN cats |->
        IF y \in Range(p.columns) /\ ~IsNaN(p.cell[<<cats[i], y>>])
        THEN JsonNum(Round2(p.cell[<<cats[i], y>>]))
        ELSE JsonNull]

\* {str(y): series_for_year(y) for y in years} (line 97).
DataByYear(p, cats, ys) ==
    [t \in {Str(y) : y \in Range(ys)} |-> series_for_year(p, cats, YearOf[t])]

NoReport == [written |-> FALSE, categories |-> <<>>, years |-> <<>>,
             data_by_year |-> <<>>]

----------------------------------------------------------------------------
(* The run *)

VARIABLES
    input_file,    \* the input CSV on disk
    pc,            \* the statement the script is at; "done" or "failed" at the end
    df,            \* line 22
    merged,        \* lines 34-37
    output_file,   \* the normalized CSV on disk
    df_ratio,      \* lines 47-57
    pivot,         \* lines 60-61
    years,         \* line 64
    SORT_MODE,     \* line 70
    categories,    \* lines 72-90
    data_by_year,  \* line 97
    html_path      \* the HTML report on disk

vars == <<input_file, pc, df, merged, output_file, df_ratio, pivot, years,
          SORT_MODE, categories, data_by_year, html_path>>

Init ==
    /\ input_file \in InputFiles
    /\ pc = "read"
    /\ df = NoTable
    /\ merged = NoTable
    /\ output_file = NoFile
    /\ df_ratio = <<>>
    /\ pivot = NoPivot
    /\ years = <<>>
    /\ SORT_MODE = Mode("", "")
    /\ categories = <<>>
    /\ data_by_year = <<>>
    /\ html_path = NoReport

\* Line 22: pd.read_csv(input_file).
ReadInput ==
    /\ pc = "read"
    /\ input_file.exists
    /\ df' = [cols |-> input_file.cols, rows |-> input_file.rows]
    /\ pc' = "merge"
    /\ UNCHANGED <<input_file, merged, output_file, df_ratio, pivot, years,
                   SORT_MODE, categories, data_by_year, html_path>>

\* Line 22 raises FileNotFoundError.
ReadInputFails ==
    /\ pc = "read"
    /\ ~input_file.exists
    /\ pc' = "failed"
    /\ UNCHANGED <<input_file, df, merged, output_file, df_ratio, pivot, years,
                   SORT_MODE, categories, data_by_year, html_path>>

\* Lines 34-37.
Normalize ==
    /\ pc = "merge"
    /\ MergeColumns \subseteq Range(df.cols)
    /\ merged' = Normalized(df)
    /\ pc' = "save"
    /\ UNCHANGED <<input_file, df, output_file, df_ratio, pivot, years,
                   SORT_MODE, categories, data_by_year, html_path>>

\* Line 34 or line 37 raises KeyError.
NormalizeFails ==
    /\ pc = "merge"
    /\ ~(MergeColumns \subseteq Range(df.cols))
    /\ pc' = "failed"
    /\ UNCHANGED <<input_file, df, merged, output_file, df_ratio, pivot, years,
                   SORT_MODE, categories, data_by_year, html_path>>

\* Lines 40-44.
SaveCsv ==
    /\ pc = "save"
    /\ output_file' = ToCsv(merged)
    /\ pc' = "aggregate"
    /\ UNCHANGED <<input_file, df, merged, df_ratio, pivot, years,
                   SORT_MODE, categories, data_by_year, html_path>>

\* Lines 47-64.
Aggregate ==
    /\ pc = "aggregate"
    /\ AggregateColumns \subseteq Range(output_file.cols)
    /\ LET g == GroupMean(Retained(ReadCsv(output_file).rows))
       IN  /\ df_ratio' = g
           /\ pivot' = Pivot(g)
           /\ years' = YearList(Pivot(g))
    /\ pc' = "sort"
    /\ UNCHANGED <<input_file, df, merged, output_file,
                   SORT_MODE, categories, data_by_year, html_path>>

\* Line 50 raises KeyError.
AggregateFails ==
    /\ pc = "aggregate"
    /\ ~(AggregateColumns \subseteq Range(output_file.cols))
    /\ pc' = "failed"
    /\ UNCHANGED <<input_file, df, merged, output_file, df_ratio, pivot, years,
                   SORT_MODE, categories, data_by_year, html_path>>

\* Lines 70-75 with SORT_MODE = "total".
SortTotal ==
    /\ pc = "sort"
    /\ SORT_MODE' = Mode("total", "")
    /\ categories' \in SortValuesDesc(pivot.index, Total(pivot))
    /\ pc' = "series"
    /\ UNCHANGED <<input_file, df, merged, output_file, df_ratio, pivot, years,
                   data_by_year, html_path>>

\* Lines 70-83 with SORT_MODE = "year:<tail>".
SortYear ==
    /\ pc = "sort"
    /\ \E m \in {s \in SortModes : s.head = "year"} :
          /\ SORT_MODE' = m
          /\ LET y == SortYearOf(m.tail, pivot, years)
             IN  IF y = {}
                 THEN categories' = pivot.index
                 ELSE \E v \in y :
                         categories' \in SortValuesDesc(pivot.index, Column(pivot, v))
    /\ pc' = "series"
    /\ UNCHANGED <<input_file, df, merged, output_file, df_ratio, pivot, years,
                   data_by_year, html_path>>

\* Lines 70-90 with SORT_MODE = "latest".
SortLatest ==
    /\ pc = "sort"
    /\ SORT_MODE' = Mode("latest", "")
    /\ categories' \in SortValuesDesc(pivot.index, latest_vals(pivot))
    /\ pc' = "series"
    /\ UNCHANGED <<input_file, df, merged, output_file, df_ratio, pivot, years,
                   data_by_year, html_path>>

\* Lines 93-97.
BuildSeries ==
    /\ pc = "series"
    /\ data_by_year' = DataByYear(pivot, categories, years)
    /\ pc' = "html"
    /\ UNCHANGED <<input_file, df, merged, output_file, df_ratio, pivot, years,
                   SORT_MODE, categories, html_path>>

\* Lines 253-262.
WriteHtml ==
    /\ pc = "html"
    /\ html_path' = [written |-> TRUE, categories |-> categories,
                     years |-> years, data_by_year |-> data_by_year]
    /\ pc' = "done"
    /\ UNCHANGED <<input_file, df, merged, output_file, df_ratio, pivot, years,
                   SORT_MODE, categories, data_by_year>>

Next ==
    \/ ReadInput
    \/ ReadInputFails
    \/ Normalize
    \/ NormalizeFails
    \/ SaveCsv
    \/ Aggregate
    \/ AggregateFails
    \/ SortTotal
    \/ SortYear
    \/ SortLatest
    \/ BuildSeries
    \/ WriteHtml

Spec == Init /\ [][Next]_vars

----------------------------------------------------------------------------
(* Properties *)

Aggregated == pc \in {"sort", "series", "html", "done"}

Sorted == pc \in {"series", "html", "done"}

SeriesBuilt == pc \in {"html", "done"}

\* The rows of the normalized CSV as a reader of the file sees them.
OutRows == ReadCsv(output_file).rows

Occurrences(rows, r) == Cardinality({i \in DOMAIN rows : rows[i] = r})

IsPermutationOf(s, t) ==
    /\ Len(s) = Len(t)
    /\ Range(s) = Range(t)
    /\ \A i, j \in DOMAIN s : i # j => s[i] # s[j]

GreatestOf(S) == CHOOSE m \in S : \A x \in S : x <= m

\* C1: a row of the input whose country has no population entry, or a
\* population <= 0, is in no row of the normalized CSV; every other input
\* row is in it exactly as often as in the input, and the file has no
\* other rows.
NormalizedKeepsExactlyPopulated ==
    output_file.written =>
        LET InputPart(i) == Restrict(OutRows[i], Range(df.cols))
            Dropped(r) == \/ r["COUNTRY"] \notin {"A", "B", "C"}
                          \/ population_millions[r["COUNTRY"]].n <= 0
        IN  /\ \A i \in DOMAIN OutRows : InputPart(i) \in Range(df.rows)
            /\ \A r \in Range(df.rows) :
                  Cardinality({i \in DOMAIN OutRows : InputPart(i) = r})
                    = IF Dropped(r) THEN 0 ELSE Occurrences(df.rows, r)

\* C1 witness: the input has a row of the country with population 0 and a
\* row that is kept, and the file holds the kept row only.
NormalizedDroppedZeroPopulation ==
    /\ output_file.written
    /\ Len(df.rows) = 2
    /\ \E i \in DOMAIN df.rows : df.rows[i]["COUNTRY"] = "C"
    /\ Len(output_file.rows) = 1

\* C2: under "total" the categories are the countries of the pivot from the
\* greatest sum of available values to the least, and countries with equal
\* sums stay in ascending code order.
TotalOrderIsStable ==
    (Sorted /\ SORT_MODE.head = "total") =>
        /\ IsPermutationOf(categories, pivot.index)
        /\ \A i, j \in DOMAIN categories :
              i < j =>
                LET a == Total(pivot)[categories[i]]
                    b == Total(pivot)[categories[j]]
                IN  \/ Less(b, a)
                    \/ a = b /\ CodeRank[categories[i]] < CodeRank[categories[j]]

\* C3 as stated: a run that fails has written neither the normalized CSV
\* nor the HTML report.
FailureWritesNothing ==
    pc = "failed" => ~output_file.written /\ ~html_path.written

\* C3 amended: a run that fails has not written the HTML report; it has
\* written the normalized CSV exactly when the input file exists and has
\* the columns COUNTRY and OBS_VALUE (so it lacks TIME_PERIOD and line 50
\* fails after line 42 wrote the file).
FailureWritesNoReport ==
    pc = "failed" =>
        /\ ~html_path.written
        /\ output_file.written <=>
              /\ input_file.exists
              /\ {"COUNTRY", "OBS_VALUE"} \subseteq Range(input_file.cols)
        /\ output_file.written => "TIME_PERIOD" \notin Range(input_file.cols)

\* C3 witness: a failed run that left the normalized CSV behind.
FailedAfterCsv ==
    /\ pc = "failed"
    /\ output_file.written
    /\ Len(output_file.rows) > 0

\* The countries in the order a descending sort on the column of year y
\* allows: values from greatest to least, countries without value last.
DescendingByYear(cats, y) ==
    /\ IsPermutationOf(cats, pivot.index)
    /\ \A i, j \in DOMAIN cats :
          i < j =>
            LET a == pivot.cell[<<cats[i], y>>]
                b == pivot.cell[<<cats[j], y>>]
            IN  IsNaN(b) \/ (~IsNaN(a) /\ ~Less(a, b))

\* C4: under "year:YYYY" with YYYY not in the year list the categories are
\* sorted on the greatest year of the list; with an empty year list they
\* are the index as it was; and the policy has a successor at every pivot.
YearPolicyFallsBack ==
    /\ (Sorted /\ SORT_MODE.head = "year") =>
          LET absent == \/ SORT_MODE.tail \notin DOMAIN YearOf
                        \/ YearOf[SORT_MODE.tail] \notin Range(years)
          IN  IF years = <<>> THEN categories = pivot.index
              ELSE absent => DescendingByYear(categories, GreatestOf(Range(years)))
    /\ pc = "sort" => ENABLED SortYear

\* C4 witness: the year asked for is in no row, the data has two years, and
\* a country without value in the later year comes last.
YearPolicyFellBack ==
    /\ Sorted /\ SORT_MODE = Mode("year", "2019")
    /\ Len(years) = 2
    /\ categories = <<"B", "A">>
    /\ IsNaN(pivot.cell[<<"A", 2021>>])

\* C5: the series of every year has one entry per category; the i-th entry
\* is null exactly when the pivot has no value for the i-th category in
\* that year (so never 0 then), and otherwise it is the value of that cell
\* to two decimals.
SeriesAlignedToCategories ==
    SeriesBuilt =>
        /\ DOMAIN data_by_year = {Str(y) : y \in Range(years)}
        /\ \A y \in Range(years) :
              LET s == data_by_year[Str(y)]
              IN  /\ Len(s) = Len(categories)
                  /\ \A i \in DOMAIN categories :
                        LET v == pivot.cell[<<categories[i], y>>]
                            e == s[i].num
                            h == e.n * (100 \div e.d)
                        IN  /\ s[i].null <=> IsNaN(v)
                            /\ IsNaN(v) => s[i] # JsonNum(Num(0))
                            /\ ~IsNaN(v) =>
                                  /\ 100 % e.d = 0
                                  /\ 2 * Abs(100 * v.n - h * v.d) <= v.d

\* C5 witness: one year's series holds a null next to a 0 that is data.
SeriesHasNullAndZero ==
    /\ SeriesBuilt
    /\ Len(categories) = 2
    /\ \E t \in DOMAIN data_by_year :
          \E i, j \in DOMAIN categories :
              /\ data_by_year[t][i] = JsonNull
              /\ data_by_year[t][j] = JsonNum(Num(0))

\* The cells of a pivot as rows with one row per (COUNTRY, TIME_PERIOD).
MatrixRows(p) ==
    LET ks == SortKeys({k \in DOMAIN p.cell : ~IsNaN(p.cell[k])})
    IN  [i \in DOMAIN ks |->
           [COUNTRY |-> ks[i][1], TIME_PERIOD |-> ks[i][2],
            Patents_per_million |-> p.cell[ks[i]]]]

\* C6: aggregating the rows of the matrix again, or the grouped rows again,
\* gives the same matrix and the same rows.
AggregationIdempotent ==
    Aggregated =>
        /\ Pivot(GroupMean(MatrixRows(pivot))) = pivot
        /\ GroupMean(df_ratio) = df_ratio
        /\ Pivot(GroupMean(df_ratio)) = pivot

\* C6 witness: a matrix with two countries and two years, one cell of each
\* country empty.
AggregatedSparseMatrix ==
    /\ Aggregated
    /\ Len(pivot.index) = 2 /\ Len(pivot.columns) = 2
    /\ Len(MatrixRows(pivot)) = 2
    /\ \A k \in DOMAIN pivot.cell : IsNaN(pivot.cell[k]) \/ pivot.cell[k].n > 0

\* C7: in every row of the normalized CSV the ratio times the population of
\* the row's country is the raw value, exactly (a missing raw value gives a
\* missing ratio).
RatioIsExactQuotient ==
    output_file.written =>
        \A i \in DOMAIN OutRows :
            LET r == OutRows[i]
                q == r["Patents_per_million"]
                pop == population_millions[r["COUNTRY"]]
                raw == r["OBS_VALUE"]
            IN  /\ r["Population_millions"] = pop
                /\ pop.n > 0
                /\ IsNaN(q) <=> IsNaN(raw)
                /\ ~IsNaN(raw) => q.n * pop.n * raw.d = raw.n * pop.d * q.d

\* C7 witness: the file holds a ratio that two decimals cannot express.
RatioOfOneThird ==
    /\ output_file.written
    /\ \E i \in DOMAIN OutRows : OutRows[i]["Patents_per_million"] = Rat(1, 3)

\* The value of country c in the greatest year in which it has one.
OwnLatestValue(c) ==
    pivot.cell[<<c, GreatestOf({y \in Range(years) : ~IsNaN(pivot.cell[<<c, y>>])})>>]

\* C8: under "latest" the categories go from the greatest to the least
\* value a country has in its own latest year with a value.
LatestOrderByOwnLatestYear ==
    (Sorted /\ SORT_MODE.head = "latest") =>
        /\ IsPermutationOf(categories, pivot.index)
        /\ \A i, j \in DOMAIN categories :
              i < j => ~Less(OwnLatestValue(categories[i]), OwnLatestValue(categories[j]))

\* C8 witness: the first category has no value in the latest year of the
\* data and precedes a country that has one.
LatestUsedOwnYear ==
    /\ Sorted /\ SORT_MODE.head = "latest"
    /\ Len(categories) = 2 /\ Len(years) = 2
    /\ IsNaN(pivot.cell[<<categories[1], years[2]>>])
    /\ Less(OwnLatestValue(categories[2]), OwnLatestValue(categories[1]))

\* C9: under every policy the categories are the countries of the pivot,
\* each exactly once.
CategoriesArePermutation ==
    Sorted =>
        /\ IsPermutationOf(categories, pivot.index)
        /\ Range(categories) = {k[1] : k \in {x \in DOMAIN pivot.cell : ~IsNaN(pivot.cell[x])}}

\* C9 witness: a year policy has reordered two countries, one of them
\* without value in the year sorted on.
CategoriesReordered ==
    /\ Sorted /\ SORT_MODE.head = "year"
    /\ Len(categories) = 2
    /\ categories # pivot.index
    /\ \E y \in Range(years) : IsNaN(pivot.cell[<<categories[2], y>>])

RECURSIVE SumOver(_, _)
SumOver(rows, I) ==
    IF I = {} THEN Num(0)
    ELSE LET i == CHOOSE x \in I : TRUE
         IN  Add(rows[i]["Patents_per_million"], SumOver(rows, I \ {i}))

\* C10: a cell of the pivot is the mean of the ratios of the rows of the
\* normalized CSV with that country and year, among the rows whose year is
\* a number and whose ratio is defined; a cell without such a row is empty;
\* the year list is the years of those rows, ascending and without repeats.
MatrixIsMeanOfRetained ==
    Aggregated =>
        LET kept == {i \in DOMAIN OutRows :
                        /\ OutRows[i]["TIME_PERIOD"] \in DOMAIN YearOf
                        /\ ~IsNaN(OutRows[i]["Patents_per_million"])}
            Year(i) == YearOf[OutRows[i]["TIME_PERIOD"]]
            Group(c, y) == {i \in kept : OutRows[i]["COUNTRY"] = c /\ Year(i) = y}
        IN  /\ Range(years) = {Year(i) : i \in kept}
            /\ \A a, b \in DOMAIN years : a < b => years[a] < years[b]
            /\ Range(pivot.index) = {OutRows[i]["COUNTRY"] : i \in kept}
            /\ DOMAIN pivot.cell = Range(pivot.index) \X Range(years)
            /\ \A k \in DOMAIN pivot.cell :
                  LET g == Group(k[1], k[2])
                      v == pivot.cell[k]
                      s == SumOver(OutRows, g)
                  IN  IF g = {} THEN IsNaN(v)
                      ELSE ~IsNaN(v) /\ v.n * Cardinality(g) * s.d = s.n * v.d

\* C10 witness: two rows with different ratios share one cell.
MatrixAveragedDuplicates ==
    /\ Aggregated
    /\ Len(output_file.rows) = 2
    /\ Len(df_ratio) = 1
    /\ OutRows[1]["Patents_per_million"] # OutRows[2]["Patents_per_million"]
    /\ ~IsNaN(OutRows[1]["Patents_per_million"])
    /\ ~IsNaN(OutRows[2]["Patents_per_million"])

====
